---- MODULE Spec2Model ----
(***************************************************************************)
(* Collaborative editor: the handshake and the socket handlers of          *)
(* server/socket/socketHandler (join-document, document-change,             *)
(* cursor-position, save-offline-edit, sync-offline-edits, leave-document,  *)
(* disconnect), the Document model methods, the HTTP routes that update and *)
(* revert a document, and the Editor page's client side of differential     *)
(* synchronisation and of offline editing.                                  *)
(*                                                                          *)
(* Scheduling.  The server is one Node event loop: a handler runs without   *)
(* interruption up to its next `await`, so every action below is the code   *)
(* between two awaits.  A database operation takes effect when the handler  *)
(* awaiting it resumes; operations awaited by different handlers complete   *)
(* in any order.                                                            *)
(*                                                                          *)
(* Persistence.  `document.save()` is Mongoose's: it sends only the paths   *)
(* modified on the loaded copy (assigning a value equal to the copy's       *)
(* current one modifies nothing) and sends an array push as $push.          *)
(*                                                                          *)
(* The dates lastModified and lastActive, which nothing reads, are left    *)
(* out; a version's timestamp is kept.  The version key __v is kept: a      *)
(* save that pushes to an array or replaces one increments it, and a save   *)
(* that writes one position of an array or replaces an array is conditional *)
(* on the row still having the __v the copy was loaded with; when it has    *)
(* not, save() throws a VersionError and writes nothing.                    *)
(* A save can also fail for reasons outside the program (the database is   *)
(* unreachable): this is modelled for the save of document-change, as a     *)
(* step of its own that writes nothing and enters the handler's catch.      *)
(*                                                                          *)
(* The Editor page is its socket listeners, handleContentChange,            *)
(* syncChanges and handleSyncOfflineEdits; going offline is the window's    *)
(* offline event.  The effects React runs again whenever `document` or the  *)
(* offline context changes (another GET, leave-document, join-document)     *)
(* are not modelled.                                                        *)
(*                                                                          *)
(* Text.  A text is a string of TextLen characters; a patch bundle is a     *)
(* sequence of hunks, each rewriting one character and carrying the         *)
(* character it expects there as its context.                               *)
(***************************************************************************)
EXTENDS Integers, Sequences, FiniteSets, TLC

VARIABLES
  document,         \* the persisted Document (the one row of the collection)
  documentShadows,  \* Map documentId -> shadow text
  rooms,            \* the sockets joined to the document's room
  socketUser,       \* socket.user of every connection, fixed at handshake
  connection,       \* every connection: the token of its handshake, and
                    \* where it stands (in its handshake, connected,
                    \* disconnected, or refused with an error)
  users,            \* the User collection
  offlineEdits,     \* Map key -> the array of offline edits buffered under it
  arrays,           \* the arrays offlineEdits holds or has held, by reference
  handlers,         \* every handler started so far, with its position
  inbox,            \* messages emitted to each socket and not yet handled
  client,           \* the Editor page behind each socket
  emitted,          \* the emit calls of the last step
  received,         \* how many messages have arrived: the document-change
                    \* messages of each socket, and under 0 all the others
  now               \* Date.now()

vars ==
  <<document, documentShadows, rooms, socketUser, connection, users, offlineEdits,
    arrays, handlers, inbox, client, emitted, received, now>>

----------------------------------------------------------------------------
(* Bounds *)

TextLen == 2
MaxMessages == 3
MaxTicks == 2

(* Program constants *)

SnapshotInterval == 60000

----------------------------------------------------------------------------
(* Values *)

Chars == {"x", "a", "b"}
Sessions == {1, 2, 3}
\* every connection: those of the three users, and a second one of the first
Sockets == Sessions \cup {4}
\* the connections of the two members, the first of them with two
Members == {1, 2, 4}
DocId == "doc"
\* an id that no document has
NoDocId == "none"
DocumentIds == {DocId, NoDocId}

Last(s) == s[Len(s)]

\* An id is either a BSON ObjectId or a string; === never equates the two.
ObjectId(u) == <<"ObjectId", u>>
Str(u) == <<"string", u>>
toString(id) == <<"string", id[2]>>
UserIdTypes == {"ObjectId", "string"}

InitialContent == [i \in 1..TextLen |-> "x"]

\* a change description: its text and the number it interpolates, if any
Description(text, n) == [text |-> text, n |-> n]

InitialVersion ==
  [content |-> InitialContent, author |-> ObjectId("u1"),
   changeDescription |-> Description("Initial version", 0), timestamp |-> 0]

NullDocument ==
  [content |-> <<>>, owner |-> <<>>, collaborators |-> <<>>, versions |-> <<>>,
   currentVersion |-> 0, activeEditors |-> <<>>, __v |-> 0]

----------------------------------------------------------------------------
(* diff-match-patch *)

RECURSIVE HunksFrom(_, _, _)
HunksFrom(text1, text2, i) ==
  IF i > Len(text1) THEN <<>>
  ELSE (IF text1[i] # text2[i]
          THEN <<[text1 |-> text1[i], text2 |-> text2[i], start1 |-> i]>>
          ELSE <<>>) \o HunksFrom(text1, text2, i + 1)

patch_make(text1, text2) == HunksFrom(text1, text2, 1)

RECURSIVE patch_apply(_, _)
patch_apply(patches, text) ==
  IF patches = <<>> THEN [text |-> text, results |-> <<>>]
  ELSE LET p == Head(patches)
           found == p.start1 \in DOMAIN text /\ text[p.start1] = p.text1
           patched == IF found THEN [text EXCEPT ![p.start1] = p.text2] ELSE text
           rest == patch_apply(Tail(patches), patched)
       IN [text |-> rest.text, results |-> <<found>> \o rest.results]

applyPatch(text, patches) ==
  LET r == patch_apply(patches, text)
  IN [patchedText |-> r.text,
      success |-> \A i \in DOMAIN r.results : r.results[i]]

----------------------------------------------------------------------------
(* The Document model: a loaded copy with the paths modified on it *)

Loaded(doc) == [document |-> doc, modified |-> {}]

assign(m, path, value) ==
  IF m.document[path] = value THEN m
  ELSE [document |-> [m.document EXCEPT ![path] = value],
        modified |-> m.modified \cup {<<path, "$set", 0>>}]

push(m, path, value) ==
  [document |-> [m.document EXCEPT ![path] = Append(@, value)],
   modified |-> m.modified \cup {<<path, "$push", 0>>}]

assignAt(m, path, i, value) ==
  [document |-> [m.document EXCEPT ![path][i] = value],
   modified |-> m.modified \cup {<<path, "$set", i>>}]

SetIndex(m, path) ==
  IF \E i \in 1..Len(m.document[path]) : <<path, "$set", i>> \in m.modified
    THEN CHOOSE i \in 1..Len(m.document[path]) : <<path, "$set", i>> \in m.modified
    ELSE 0

SavedArray(db, m, path) ==
  LET pushed == IF <<path, "$push", 0>> \in m.modified
                  THEN Append(db[path], Last(m.document[path]))
                  ELSE db[path]
      i == SetIndex(m, path)
  IN IF <<path, "$set", 0>> \in m.modified THEN m.document[path]
     ELSE IF i \in 1..Len(pushed)
       THEN [pushed EXCEPT ![i] = m.document[path][i]]
       ELSE pushed

SavedField(db, m, path) ==
  IF <<path, "$set", 0>> \in m.modified THEN m.document[path] ELSE db[path]

ArrayPaths == {"versions", "activeEditors"}

\* the save is conditional on __v: it writes a position of an array, or
\* replaces an array
VersionWhere(m) ==
  \E change \in m.modified : change[1] \in ArrayPaths /\ change[2] = "$set"

\* the save increments __v: it pushes to an array, or replaces one
VersionInc(m) ==
  \E change \in m.modified :
    change[1] \in ArrayPaths /\ (change[2] = "$push" \/ change[3] = 0)

\* save() finds no row with the copy's __v and throws
VersionError(db, m) == VersionWhere(m) /\ db.__v # m.document.__v

\* document.save(): the row after the copy's modified paths are written
save(db, m) ==
  IF VersionError(db, m) THEN db
  ELSE [db EXCEPT !.content = SavedField(db, m, "content"),
                  !.currentVersion = SavedField(db, m, "currentVersion"),
                  !.versions = SavedArray(db, m, "versions"),
                  !.activeEditors = SavedArray(db, m, "activeEditors"),
                  !.__v = IF VersionInc(m) THEN @ + 1 ELSE @]

\* documentSchema.methods.addVersion, up to its save()
addVersion(m, content, author, changeDescription) ==
  LET pushed == push(m, "versions",
                     [content |-> content, author |-> ObjectId(author[2]),
                      changeDescription |-> changeDescription, timestamp |-> now])
      indexed == assign(pushed, "currentVersion", Len(pushed.document.versions) - 1)
  IN assign(indexed, "content", content)

findIndex(editors, userId) ==
  IF \E i \in 1..Len(editors) : toString(editors[i].userId) = toString(userId)
    THEN CHOOSE i \in 1..Len(editors) :
           /\ toString(editors[i].userId) = toString(userId)
           /\ \A j \in 1..(i - 1) : toString(editors[j].userId) # toString(userId)
    ELSE 0

\* documentSchema.methods.updateActiveEditor, up to its save()
updateActiveEditor(m, userId, username, cursorPosition, selection) ==
  LET editorIndex == findIndex(m.document.activeEditors, userId)
      editorData == [userId |-> ObjectId(userId[2]), username |-> username,
                     cursorPosition |-> cursorPosition, selection |-> selection]
  IN IF editorIndex = 0
       THEN push(m, "activeEditors", editorData)
       ELSE assignAt(m, "activeEditors", editorIndex, editorData)

\* a check that lets everyone in
AnyoneHasAccess(doc, id) == TRUE

\* the access check of join-document and of the HTTP routes
HasAccess(doc, id) ==
  LET isOwner == toString(doc.owner) = id
      isCollaborator == \E i \in 1..Len(doc.collaborators) :
                          toString(doc.collaborators[i]) = id
  IN isOwner \/ isCollaborator

----------------------------------------------------------------------------
(* Messages to clients *)

Message(type) ==
  [type |-> type, content |-> <<>>, patches |-> <<>>, userId |-> <<>>,
   username |-> "", activeEditors |-> <<>>, versionIndex |-> 0, message |-> "",
   count |-> 0]

\* one emit call of the handler of `socket`
Emit(socket, to, msg) == [socket |-> socket, to |-> to, msg |-> msg]

\* a message reaches the listeners of an Editor page; a connection with no
\* page on the document has none
RECURSIVE Delivered(_, _)
Delivered(box, calls) ==
  IF calls = <<>> THEN box
  ELSE Delivered([s \in Sockets |->
                    IF s \in Head(calls).to /\ client[s].document
                      THEN Append(box[s], Head(calls).msg)
                      ELSE box[s]],
                 Tail(calls))

Send(calls) ==
  /\ emitted' = calls
  /\ inbox' = Delivered(inbox, calls)

Silent ==
  /\ emitted' = <<>>
  /\ UNCHANGED inbox

\* a relay that goes to the whole room
toRoom(socket) == rooms

\* socket.to(room): the room without the sending socket
socketTo(socket) == rooms \ {socket}

\* io.to(room): the whole room
ioTo == rooms

----------------------------------------------------------------------------
(* Handlers *)

Handler(event, socket, user, patches, arg) ==
  [event |-> event, socket |-> socket, user |-> user, pc |-> "findById",
   patches |-> patches, arg |-> arg, document |-> NullDocument, modified |-> {},
   documentId |-> DocId, userOfflineEdits |-> 0, appliedCount |-> 0,
   attempted |-> 0]

\* the handler of a message that names documentId
On(handler, documentId) == [handler EXCEPT !.documentId = documentId]

\* Document.findById resolves to the document, or to null
Found(documentId) == documentId = DocId

Copy(h) == [document |-> handlers[h].document, modified |-> handlers[h].modified]

Await(h, pc, m) ==
  [handlers EXCEPT ![h].pc = pc, ![h].document = m.document,
                   ![h].modified = m.modified]

\* the handler returns
Done(h) == SubSeq(handlers, 1, h - 1) \o SubSeq(handlers, h + 1, Len(handlers))

At(h, event, pc) ==
  /\ h \in 1..Len(handlers)
  /\ handlers[h].event = event
  /\ handlers[h].pc = pc

RECURSIVE Sum(_, _)
Sum(f, S) ==
  IF S = {} THEN 0
  ELSE LET x == CHOOSE x \in S : TRUE IN f[x] + Sum(f, S \ {x})

Arrived == Sum(received, DOMAIN received)

Kind(handler) == IF handler.event = "document-change" THEN handler.socket ELSE 0

\* the event loop starts the handler of a message that has arrived
Start(handler) ==
  /\ Arrived < MaxMessages
  /\ handler.socket \in Sockets => connection[handler.socket].status = "connected"
  /\ handlers' = Append(handlers, handler)
  /\ received' = [received EXCEPT ![Kind(handler)] = @ + 1]

AllDone == handlers = <<>>

----------------------------------------------------------------------------
(* Initial state: the server has started, the document exists, every        *)
(* connection has passed authenticateSocket, no page has opened the         *)
(* document.  User._id is an ObjectId unless the User schema declares it a  *)
(* string.                                                                  *)

UserOf(s) == IF s \in {1, 4} THEN "u1" ELSE IF s = 2 THEN "u2" ELSE "u3"

Users == {"u1", "u2", "u3"}

\* socket.handshake.auth.token: whether there is one, whether jwt.verify
\* accepts it (signature and expiry), and the id it carries
Token(present, verifies, id) == [present |-> present, verifies |-> verifies, id |-> id]

Connection(status, token) == [status |-> status, token |-> token]

\* the User collection, by the string of _id
UserCollection(idType) ==
  [u \in Users |-> [_id |-> <<idType, u>>, username |-> u]]

authenticateSocket(s, idType) ==
  [id |-> <<idType, UserOf(s)>>, username |-> UserOf(s)]

\* the document POST /api/documents made for u1, with u2 added as collaborator
NewDocument ==
  [content |-> InitialContent, owner |-> ObjectId("u1"),
   collaborators |-> <<ObjectId("u2")>>, versions |-> <<InitialVersion>>,
   currentVersion |-> 0, activeEditors |-> <<>>, __v |-> 0]

NewClient ==
  [document |-> FALSE, content |-> <<>>, shadow |-> <<>>,
   pendingChanges |-> FALSE, error |-> FALSE,
   isOnline |-> TRUE, offlineEdits |-> <<>>, offlineEditsCount |-> 0]

Init ==
  /\ document = NewDocument
  /\ documentShadows = <<>>
  /\ rooms = {}
  /\ \E idType \in UserIdTypes :
       /\ users = UserCollection(idType)
       /\ socketUser = [s \in Sockets |-> authenticateSocket(s, idType)]
  /\ connection = [s \in Sockets |->
                    Connection("connected", Token(TRUE, TRUE, UserOf(s)))]
  /\ offlineEdits = <<>>
  /\ arrays = <<>>
  /\ handlers = <<>>
  /\ inbox = [s \in Sockets |-> <<>>]
  /\ client = [s \in Sockets |-> NewClient]
  /\ emitted = <<>>
  /\ received = [k \in Sessions \cup {0} |-> 0]
  /\ now = 0

----------------------------------------------------------------------------
(* The Editor page *)

\* The characters the user of each connection types, and where: the first
\* two users rewrite different characters of the initial text, the third
\* rewrites both.
Typed(s) ==
  IF s = 1 THEN {<<1, "a">>}
  ELSE IF s = 2 THEN {<<2, "b">>}
  ELSE {<<1, "a">>, <<2, "b">>}

\* the edit each connection sends: what its user types, on the initial text
PatchInputs(s) ==
  {patch_make(InitialContent,
              [i \in 1..TextLen |->
                 IF \E c \in Chars : <<i, c>> \in Typed(s)
                   THEN CHOOSE c \in Chars : <<i, c>> \in Typed(s)
                   ELSE InitialContent[i]])}

\* fetchDocument (GET /api/documents/:id) and the effect that joins the room
ClientOpen(s) ==
  /\ ~client[s].document
  /\ HasAccess(document, Str(UserOf(s)))
  /\ client' = [client EXCEPT ![s].document = TRUE,
                              ![s].content = document.content,
                              ![s].shadow = document.content]
  /\ Start(Handler("join-document", s, socketUser[s], <<>>, 0))
  /\ Silent
  /\ UNCHANGED <<document, documentShadows, rooms, socketUser, connection, users, offlineEdits, arrays, now>>

\* handleContentChange: the user types one character over another
ClientEdit(s) ==
  /\ client[s].document
  /\ ~client[s].error
  /\ \E i \in 1..TextLen, c \in Chars :
       /\ <<i, c>> \in Typed(s)
       /\ client[s].content[i] # c
       /\ client' = [client EXCEPT ![s].content[i] = c,
                                   ![s].pendingChanges = TRUE]
  /\ Silent
  /\ UNCHANGED <<document, documentShadows, rooms, socketUser, connection, users, offlineEdits, arrays, handlers, received, now>>

\* syncChanges, online and connected
ClientSync(s) ==
  /\ client[s].document
  /\ client[s].pendingChanges
  /\ LET patches == patch_make(client[s].shadow, client[s].content)
     IN IF patches = <<>>
          THEN /\ client' = [client EXCEPT ![s].pendingChanges = FALSE]
               /\ UNCHANGED <<handlers, received>>
        ELSE IF client[s].isOnline
          THEN /\ Start(Handler("document-change", s, socketUser[s], patches, 0))
               /\ client' = [client EXCEPT ![s].shadow = client[s].content,
                                           ![s].pendingChanges = FALSE]
          ELSE /\ client' = [client EXCEPT
                    ![s].offlineEdits =
                       Append(@, [patches |-> patches, timestamp |-> now]),
                    ![s].offlineEditsCount = @ + 1,
                    ![s].shadow = client[s].content,
                    ![s].pendingChanges = FALSE]
               /\ UNCHANGED <<handlers, received>>
  /\ Silent
  /\ UNCHANGED <<document, documentShadows, rooms, socketUser, connection, users, offlineEdits, arrays, now>>

\* the socket listeners of the page, on the oldest message not yet handled
handleMessage(c, msg) ==
  IF msg.type = "document-data"
    THEN [c EXCEPT !.content = msg.content, !.shadow = msg.content]
  ELSE IF msg.type = "document-change"
    THEN [c EXCEPT !.shadow = patch_apply(msg.patches, c.shadow).text,
                   !.content = patch_apply(msg.patches, c.content).text]
  ELSE IF msg.type \in {"sync-required", "document-updated"}
    THEN [c EXCEPT !.content = msg.content, !.shadow = msg.content]
  ELSE IF msg.type = "offline-edits-available"
    THEN [c EXCEPT !.offlineEditsCount = msg.count]
  ELSE IF msg.type = "offline-edits-synced"
    THEN [c EXCEPT !.offlineEditsCount = 0]
  ELSE IF msg.type = "error"
    THEN [c EXCEPT !.error = TRUE]
  ELSE c

ClientReceive(s) ==
  /\ inbox[s] # <<>>
  /\ inbox' = [inbox EXCEPT ![s] = Tail(@)]
  /\ client' = [client EXCEPT ![s] = handleMessage(@, Head(inbox[s]))]
  /\ emitted' = <<>>
  /\ UNCHANGED <<document, documentShadows, rooms, socketUser, connection, users, offlineEdits, arrays, handlers, received, now>>

----------------------------------------------------------------------------
(* Messages from a connection, whatever program is behind it *)

OnJoinDocument(s) ==
  /\ Start(Handler("join-document", s, socketUser[s], <<>>, 0))
  /\ Silent
  /\ UNCHANGED <<document, documentShadows, rooms, socketUser, connection, users, offlineEdits, arrays, client, now>>

OnDocumentChange(s) ==
  /\ \E patches \in PatchInputs(s) :
       Start(Handler("document-change", s, socketUser[s], patches, 0))
  /\ Silent
  /\ UNCHANGED <<document, documentShadows, rooms, socketUser, connection, users, offlineEdits, arrays, client, now>>

\* The clock is read (Date.now(), new Date()) by the step that follows the
\* save of document-change and by the first step of the two routes, so it is
\* advanced while some handler waits for such a step.
ReadsClock(h) ==
  \/ handlers[h].event \in {"document-change", "sync-offline-edits"}
       /\ handlers[h].pc = "save"
  \/ handlers[h].event \in {"put", "revert"} /\ handlers[h].pc = "findById"

Tick ==
  /\ \E h \in 1..Len(handlers) : ReadsClock(h)
  /\ now < MaxTicks * SnapshotInterval
  /\ now' = now + SnapshotInterval
  /\ Silent
  /\ UNCHANGED <<document, documentShadows, rooms, socketUser, connection, users, offlineEdits, arrays, handlers, client, received>>

----------------------------------------------------------------------------
(* The shadow cache *)

HasShadow == DocId \in DOMAIN documentShadows

updateDocumentShadow(newContent) == [d \in {DocId} |-> newContent]

----------------------------------------------------------------------------
(* join-document *)

DocumentData(h) ==
  [Message("document-data") EXCEPT
     !.content = handlers[h].document.content,
     !.activeEditors = handlers[h].document.activeEditors]

EditorJoined(h) ==
  [Message("editor-joined") EXCEPT
     !.userId = handlers[h].user.id,
     !.username = handlers[h].user.username,
     !.activeEditors = handlers[h].document.activeEditors]

ErrorMessage(text) == [Message("error") EXCEPT !.message = text]

\* catch (error) { socket.emit('error', { message: error.message }) }
Catch(h, text) ==
  /\ Send(<<Emit(handlers[h].socket, {handlers[h].socket}, ErrorMessage(text))>>)
  /\ handlers' = Done(h)

\* the key `${socket.user.id}-${documentId}` of the offline buffer
Key(user, documentId) == <<toString(user.id), documentId>>

\* offlineEdits.get(key) || []
Buffered(key) ==
  IF key \in DOMAIN offlineEdits THEN arrays[offlineEdits[key]] ELSE <<>>

\* a notice that carries no count
OfflineEditsAvailableUncounted(count) == Message("offline-edits-available")

OfflineEditsAvailable(count) ==
  [Message("offline-edits-available") EXCEPT !.count = count]

\* lines 134-153: document-data to the joiner, editor-joined to the others,
\* offline-edits-available to the joiner who has offline edits buffered
JoinReply(h) ==
  LET userOfflineEdits == Buffered(Key(handlers[h].user, handlers[h].documentId))
  IN /\ Send(<<Emit(handlers[h].socket, {handlers[h].socket}, DocumentData(h)),
               Emit(handlers[h].socket, socketTo(handlers[h].socket), EditorJoined(h))>>
             \o (IF Len(userOfflineEdits) > 0
                   THEN <<Emit(handlers[h].socket, {handlers[h].socket},
                               OfflineEditsAvailable(Len(userOfflineEdits)))>>
                   ELSE <<>>))
     /\ handlers' = Done(h)

JoinFindById(h) ==
  /\ At(h, "join-document", "findById")
  /\ IF ~Found(handlers[h].documentId)
       THEN /\ Send(<<Emit(handlers[h].socket, {handlers[h].socket},
                             ErrorMessage("Document not found"))>>)
            /\ handlers' = Done(h)
            /\ UNCHANGED rooms
     ELSE IF ~HasAccess(document, handlers[h].user.id)
       THEN /\ Send(<<Emit(handlers[h].socket, {handlers[h].socket},
                             ErrorMessage("Access denied"))>>)
            /\ handlers' = Done(h)
            /\ UNCHANGED rooms
       ELSE /\ rooms' = rooms \cup {handlers[h].socket}
            /\ handlers' = Await(h, "updateActiveEditor",
                 updateActiveEditor(Loaded(document), handlers[h].user.id,
                                    handlers[h].user.username, 0,
                                    [start |-> 0, end |-> 0]))
            /\ Silent
  /\ UNCHANGED <<document, documentShadows, socketUser, connection, users, offlineEdits, arrays, client,received, now>>

JoinEditorSaved(h) ==
  /\ At(h, "join-document", "updateActiveEditor")
  /\ document' = save(document, Copy(h))
  /\ IF VersionError(document, Copy(h))
       THEN Catch(h, "VersionError")
     ELSE IF HasShadow
       THEN JoinReply(h)
       ELSE /\ handlers' = Await(h, "getDocumentShadow", Loaded(handlers[h].document))
            /\ Silent
  /\ UNCHANGED <<documentShadows, rooms, socketUser, connection, users, offlineEdits, arrays, client,received, now>>

JoinShadowLoaded(h) ==
  /\ At(h, "join-document", "getDocumentShadow")
  /\ documentShadows' = updateDocumentShadow(document.content)
  /\ JoinReply(h)
  /\ UNCHANGED <<document, rooms, socketUser, connection, users, offlineEdits, arrays, client,received, now>>

----------------------------------------------------------------------------
(* document-change *)

SyncRequired(doc) ==
  [Message("sync-required") EXCEPT
     !.content = doc.content, !.versionIndex = doc.currentVersion]

DocumentChange(h) ==
  [Message("document-change") EXCEPT
     !.patches = handlers[h].patches,
     !.userId = handlers[h].user.id,
     !.username = handlers[h].user.username]

VersionCreated(h) ==
  [Message("version-created") EXCEPT
     !.versionIndex = handlers[h].document.currentVersion,
     !.userId = handlers[h].user.id,
     !.username = handlers[h].user.username]

\* lines 172-190: patch the shadow, then either sync-required or the save
ApplyToShadow(h, m, serverShadow) ==
  LET r == applyPatch(serverShadow, handlers[h].patches)
  IN IF ~r.success
       THEN /\ documentShadows' = updateDocumentShadow(serverShadow)
            /\ Send(<<Emit(handlers[h].socket, {handlers[h].socket},
                             SyncRequired(m.document))>>)
            /\ handlers' = Done(h)
       ELSE /\ documentShadows' = updateDocumentShadow(r.patchedText)
            /\ handlers' = Await(h, "save", assign(m, "content", r.patchedText))
            /\ Silent

ChangeFindById(h) ==
  /\ At(h, "document-change", "findById")
  /\ IF ~Found(handlers[h].documentId)
       THEN /\ Send(<<Emit(handlers[h].socket, {handlers[h].socket},
                             ErrorMessage("Document not found"))>>)
            /\ handlers' = Done(h)
            /\ UNCHANGED documentShadows
     ELSE IF HasShadow
       THEN ApplyToShadow(h, Loaded(document), documentShadows[DocId])
       ELSE /\ handlers' = Await(h, "getDocumentShadow", Loaded(document))
            /\ Silent
            /\ UNCHANGED documentShadows
  /\ UNCHANGED <<document, rooms, socketUser, connection, users, offlineEdits, arrays, client,received, now>>

ChangeShadowLoaded(h) ==
  /\ At(h, "document-change", "getDocumentShadow")
  /\ ApplyToShadow(h, Copy(h), document.content)
  /\ UNCHANGED <<document, rooms, socketUser, connection, users, offlineEdits, arrays, client,received, now>>

\* the interval taken as elapsed once it is reached
SnapshotDueAtInterval(doc) ==
  \/ Len(doc.versions) = 0
  \/ now - Last(doc.versions).timestamp >= SnapshotInterval

\* lines 201-202, on the handler's copy
SnapshotDue(doc) ==
  \/ Len(doc.versions) = 0
  \/ now - Last(doc.versions).timestamp > SnapshotInterval

ChangeSaved(h) ==
  /\ At(h, "document-change", "save")
  /\ document' = save(document, Copy(h))
  /\ Send(<<Emit(handlers[h].socket, socketTo(handlers[h].socket), DocumentChange(h))>>)
  /\ LET m == Loaded(handlers[h].document)
     IN IF SnapshotDue(m.document)
          THEN handlers' = Await(h, "addVersion",
                 addVersion(m, m.document.content, handlers[h].user.id,
                            Description("Auto-saved version", 0)))
          ELSE handlers' = Done(h)
  /\ UNCHANGED <<documentShadows, rooms, socketUser, connection, users, offlineEdits, arrays, client,received, now>>

\* `await document.save()` of line 190 rejects: nothing is written, and the
\* handler goes on in its catch block
ChangeSaveFailed(h) ==
  /\ At(h, "document-change", "save")
  /\ Catch(h, "save failed")
  /\ UNCHANGED <<document, documentShadows, rooms, socketUser, connection, users, offlineEdits, arrays, client,received, now>>

ChangeVersionAdded(h) ==
  /\ At(h, "document-change", "addVersion")
  /\ document' = save(document, Copy(h))
  /\ Send(<<Emit(handlers[h].socket, ioTo, VersionCreated(h))>>)
  /\ handlers' = Done(h)
  /\ UNCHANGED <<documentShadows, rooms, socketUser, connection, users, offlineEdits, arrays, client,received, now>>

----------------------------------------------------------------------------
(* cursor-position *)

CursorInputs == {1}

CursorPosition(h) ==
  [Message("cursor-position") EXCEPT
     !.userId = handlers[h].user.id,
     !.username = handlers[h].user.username,
     !.versionIndex = handlers[h].arg]

OnCursorPosition(s) ==
  /\ \E documentId \in DocumentIds, cursorPosition \in CursorInputs :
       Start(On(Handler("cursor-position", s, socketUser[s], <<>>, cursorPosition),
                documentId))
  /\ Silent
  /\ UNCHANGED <<document, documentShadows, rooms, socketUser, connection, users, offlineEdits, arrays, client, now>>

CursorFindById(h) ==
  /\ At(h, "cursor-position", "findById")
  /\ IF ~Found(handlers[h].documentId)
       THEN /\ Send(<<Emit(handlers[h].socket, {handlers[h].socket},
                             ErrorMessage("Document not found"))>>)
            /\ handlers' = Done(h)
       ELSE /\ handlers' = Await(h, "updateActiveEditor",
                 updateActiveEditor(Loaded(document), handlers[h].user.id,
                                    handlers[h].user.username, handlers[h].arg,
                                    [start |-> handlers[h].arg, end |-> handlers[h].arg]))
            /\ Silent
  /\ UNCHANGED <<document, documentShadows, rooms, socketUser, connection, users, offlineEdits, arrays, client, received, now>>

CursorSaved(h) ==
  /\ At(h, "cursor-position", "updateActiveEditor")
  /\ document' = save(document, Copy(h))
  /\ IF VersionError(document, Copy(h))
       THEN Catch(h, "VersionError")
       ELSE /\ Send(<<Emit(handlers[h].socket, socketTo(handlers[h].socket),
                             CursorPosition(h))>>)
            /\ handlers' = Done(h)
  /\ UNCHANGED <<documentShadows, rooms, socketUser, connection, users, offlineEdits, arrays, client, received, now>>

----------------------------------------------------------------------------
(* leave-document and disconnect *)

\* documentSchema.methods.removeActiveEditor, up to its save()
removeActiveEditor(m, userId) ==
  LET others(editor) == toString(editor.userId) # toString(userId)
  IN assign(m, "activeEditors", SelectSeq(m.document.activeEditors, others))

EditorLeft(h) ==
  [Message("editor-left") EXCEPT
     !.userId = handlers[h].user.id,
     !.username = handlers[h].user.username,
     !.activeEditors = handlers[h].document.activeEditors]

OnLeaveDocument(s) ==
  /\ \E documentId \in DocumentIds :
       Start(On(Handler("leave-document", s, socketUser[s], <<>>, 0), documentId))
  /\ Silent
  /\ UNCHANGED <<document, documentShadows, rooms, socketUser, connection, users, offlineEdits, arrays, client, now>>

\* socket.leave of a room other than the document's changes no room modelled
LeaveFindById(h) ==
  /\ At(h, "leave-document", "findById")
  /\ IF Found(handlers[h].documentId)
       THEN handlers' = Await(h, "removeActiveEditor",
                              removeActiveEditor(Loaded(document), handlers[h].user.id))
       ELSE handlers' = Done(h)
  /\ Silent
  /\ UNCHANGED <<document, documentShadows, rooms, socketUser, connection, users, offlineEdits, arrays, client, received, now>>

LeaveSaved(h) ==
  /\ At(h, "leave-document", "removeActiveEditor")
  /\ document' = save(document, Copy(h))
  /\ IF VersionError(document, Copy(h))
       THEN /\ Catch(h, "VersionError")
            /\ UNCHANGED rooms
       ELSE /\ Send(<<Emit(handlers[h].socket, socketTo(handlers[h].socket),
                             EditorLeft(h))>>)
            /\ rooms' = rooms \ {handlers[h].socket}
            /\ handlers' = Done(h)
  /\ UNCHANGED <<documentShadows, socketUser, connection, users, offlineEdits, arrays, client, received, now>>

\* The connection closes: the socket is taken out of its rooms, then the
\* 'disconnect' listener runs.
OnDisconnect(s) ==
  /\ Start([Handler("disconnect", s, socketUser[s], <<>>, 0) EXCEPT !.pc = "find"])
  /\ connection' = [connection EXCEPT ![s].status = "disconnected"]
  /\ rooms' = rooms \ {s}
  /\ Silent
  /\ UNCHANGED <<document, documentShadows, socketUser, users, offlineEdits, arrays, client, now>>

\* Document.find({'activeEditors.userId': socket.user.id}): the document, if
\* the user has an entry in it
DisconnectFind(h) ==
  /\ At(h, "disconnect", "find")
  /\ IF findIndex(document.activeEditors, handlers[h].user.id) # 0
       THEN handlers' = Await(h, "removeActiveEditor",
                              removeActiveEditor(Loaded(document), handlers[h].user.id))
       ELSE handlers' = Done(h)
  /\ Silent
  /\ UNCHANGED <<document, documentShadows, rooms, socketUser, connection, users, offlineEdits, arrays, client, received, now>>

\* a VersionError is caught and logged
DisconnectSaved(h) ==
  /\ At(h, "disconnect", "removeActiveEditor")
  /\ document' = save(document, Copy(h))
  /\ IF VersionError(document, Copy(h))
       THEN Silent
       ELSE Send(<<Emit(handlers[h].socket, socketTo(handlers[h].socket),
                        EditorLeft(h))>>)
  /\ handlers' = Done(h)
  /\ UNCHANGED <<documentShadows, rooms, socketUser, connection, users, offlineEdits, arrays, client, received, now>>

----------------------------------------------------------------------------
(* The handshake: io.use(authenticateSocket) *)

\* no token, a forged or expired token, the token of a user who is no longer
\* in the collection, and the token of the connection's user
Tokens(s) ==
  {Token(FALSE, FALSE, ""), Token(TRUE, FALSE, UserOf(s)),
   Token(TRUE, TRUE, "u0"), Token(TRUE, TRUE, UserOf(s))}

NoUser == [id |-> <<>>, username |-> ""]

\* a handshake that does not verify the token
AuthenticationErrorUnverified(token) ==
  IF ~token.present THEN "Authentication error: Token not provided"
  ELSE IF token.id \notin DOMAIN users THEN "Authentication error: User not found"
  ELSE ""

\* the error authenticateSocket passes to next(), "" when it passes none
AuthenticationError(token) ==
  IF ~token.present THEN "Authentication error: Token not provided"
  ELSE IF ~token.verifies THEN "Authentication error: Invalid token"
  ELSE IF token.id \notin DOMAIN users THEN "Authentication error: User not found"
  ELSE ""

\* a refused connection never reaches io.on('connection'): no listener is
\* registered on it
Handshake(s) ==
  /\ connection[s].status = "handshake"
  /\ \E token \in Tokens(s) :
       IF AuthenticationError(token) # ""
         THEN /\ connection' = [connection EXCEPT ![s] =
                   Connection(AuthenticationError(token), token)]
              /\ UNCHANGED socketUser
         ELSE /\ connection' = [connection EXCEPT ![s] = Connection("connected", token)]
              /\ socketUser' = [socketUser EXCEPT ![s] =
                   [id |-> users[token.id]._id, username |-> users[token.id].username]]
  /\ Silent
  /\ UNCHANGED <<document, documentShadows, rooms, users, offlineEdits, arrays, handlers, client, received, now>>

\* the server has started and no connection has been made
InitHandshake ==
  /\ document = NewDocument
  /\ documentShadows = <<>>
  /\ rooms = {}
  /\ \E idType \in UserIdTypes : users = UserCollection(idType)
  /\ socketUser = [s \in Sockets |-> NoUser]
  /\ connection = [s \in Sockets |-> Connection("handshake", Token(FALSE, FALSE, ""))]
  /\ offlineEdits = <<>>
  /\ arrays = <<>>
  /\ handlers = <<>>
  /\ inbox = [s \in Sockets |-> <<>>]
  /\ client = [s \in Sockets |-> NewClient]
  /\ emitted = <<>>
  /\ received = [k \in Sessions \cup {0} |-> 0]
  /\ now = 0

----------------------------------------------------------------------------
(* The offline buffer: save-offline-edit and sync-offline-edits *)

\* The offline edits each connection sends, with their client timestamps:
\* the first user made two edits one after the other on the first character,
\* the second user one edit on the second character.
OfflineEditInputs(s) ==
  IF s = 1
    THEN {[timestamp |-> 100,
           patches |-> patch_make(InitialContent, [InitialContent EXCEPT ![1] = "a"])],
          [timestamp |-> 200,
           patches |-> patch_make([InitialContent EXCEPT ![1] = "a"],
                                  [InitialContent EXCEPT ![1] = "b"])]}
  ELSE IF s = 2
    THEN {[timestamp |-> 100,
           patches |-> patch_make(InitialContent, [InitialContent EXCEPT ![2] = "b"])]}
  ELSE {[timestamp |-> 100,
         patches |-> patch_make(InitialContent, [InitialContent EXCEPT ![1] = "a"])]}

OfflineEdit(s, input) ==
  [patches |-> input.patches, timestamp |-> input.timestamp,
   userId |-> socketUser[s].id, username |-> socketUser[s].username]

\* a reply that carries no count
OfflineEditsSyncedUncounted(count) == Message("offline-edits-synced")

OfflineEditsSynced(count) ==
  [Message("offline-edits-synced") EXCEPT !.count = count]

\* a buffer that is kept
keep(key) == offlineEdits

\* offlineEdits.delete(key)
delete(key) == [k \in DOMAIN offlineEdits \ {key} |-> offlineEdits[k]]

\* an edit put at the head of the queue
unshift(array, edit) == <<edit>> \o array

\* offlineEdits.get(key).push(edit)
bufferPush(array, edit) == Append(array, edit)

\* save-offline-edit: synchronous, it has completed when the message is handled
SaveOfflineEdit(s, inputs) ==
  /\ Arrived < MaxMessages
  /\ received' = [received EXCEPT ![0] = @ + 1]
  /\ \E documentId \in DocumentIds, input \in inputs :
       LET key == Key(socketUser[s], documentId)
       IN IF key \in DOMAIN offlineEdits
            THEN /\ arrays' = [arrays EXCEPT ![offlineEdits[key]] =
                                 bufferPush(@, OfflineEdit(s, input))]
                 /\ UNCHANGED offlineEdits
            ELSE /\ arrays' = Append(arrays, bufferPush(<<>>, OfflineEdit(s, input)))
                 /\ offlineEdits' = offlineEdits @@ (key :> Len(arrays) + 1)
  /\ Send(<<Emit(s, {s}, Message("offline-edit-saved"))>>)
  /\ UNCHANGED <<document, documentShadows, rooms, socketUser, connection, users, handlers, client, now>>

OnSaveOfflineEdit(s) == SaveOfflineEdit(s, OfflineEditInputs(s))

\* Bundles of more than one hunk: the first user edited the first character,
\* then both characters at once, then the first character again; the second
\* user edited both characters at once, then the second one.
BundleInputs(s) ==
  IF s = 1
    THEN {[timestamp |-> 100,
           patches |-> patch_make(InitialContent, [InitialContent EXCEPT ![1] = "a"])],
          [timestamp |-> 200,
           patches |-> patch_make(InitialContent,
                                  [InitialContent EXCEPT ![1] = "a", ![2] = "b"])],
          [timestamp |-> 300,
           patches |-> patch_make([InitialContent EXCEPT ![1] = "a"],
                                  [InitialContent EXCEPT ![1] = "b"])]}
  ELSE {[timestamp |-> 100,
         patches |-> patch_make(InitialContent,
                                [InitialContent EXCEPT ![1] = "a", ![2] = "b"])],
        [timestamp |-> 200,
         patches |-> patch_make(InitialContent, [InitialContent EXCEPT ![2] = "a"])]}

\* save-offline-edit carrying one of these bundles
OnSaveOfflineBundle(s) == SaveOfflineEdit(s, BundleInputs(s))

\* Array.prototype.sort((a, b) => a.timestamp - b.timestamp): stable
RECURSIVE insert(_, _)
insert(sorted, edit) ==
  IF sorted = <<>> THEN <<edit>>
  ELSE IF Last(sorted).timestamp - edit.timestamp > 0
    THEN Append(insert(SubSeq(sorted, 1, Len(sorted) - 1), edit), Last(sorted))
    ELSE Append(sorted, edit)

RECURSIVE sort(_)
\* the array left in the order of arrival
unsorted(edits) == edits

sort(edits) ==
  IF edits = <<>> THEN <<>>
  ELSE insert(sort(SubSeq(edits, 1, Len(edits) - 1)), Last(edits))

\* a loop that keeps the text a failed bundle leaves
RECURSIVE applyEachKeeping(_, _, _)
applyEachKeeping(edits, serverShadow, appliedCount) ==
  IF edits = <<>> THEN [serverShadow |-> serverShadow, appliedCount |-> appliedCount]
  ELSE LET r == applyPatch(serverShadow, Head(edits).patches)
       IN applyEachKeeping(Tail(edits), r.patchedText,
                           IF r.success THEN appliedCount + 1 ELSE appliedCount)

\* lines 294-301: the loop over the edits
RECURSIVE applyEach(_, _, _)
applyEach(edits, serverShadow, appliedCount) ==
  IF edits = <<>> THEN [serverShadow |-> serverShadow, appliedCount |-> appliedCount]
  ELSE LET r == applyPatch(serverShadow, Head(edits).patches)
       IN IF r.success
            THEN applyEach(Tail(edits), r.patchedText, appliedCount + 1)
            ELSE applyEach(Tail(edits), serverShadow, appliedCount)

\* sync-offline-edits naming documentId, up to its first await
SyncOfflineEdits(s, documentId) ==
  LET key == Key(socketUser[s], documentId)
  IN /\ IF Len(Buffered(key)) = 0
          THEN /\ Arrived < MaxMessages
               /\ received' = [received EXCEPT ![0] = @ + 1]
               /\ Send(<<Emit(s, {s}, OfflineEditsSynced(0))>>)
               /\ UNCHANGED handlers
          ELSE /\ Start([On(Handler("sync-offline-edits", s, socketUser[s], <<>>, 0),
                            documentId)
                           EXCEPT !.userOfflineEdits = offlineEdits[key]])
               /\ Silent
     /\ UNCHANGED <<document, documentShadows, rooms, socketUser, connection, users, offlineEdits, arrays, now>>

SyncOfflineEditsMessage(s, documentId) ==
  /\ SyncOfflineEdits(s, documentId)
  /\ UNCHANGED client

OnSyncOfflineEdits(s) ==
  \E documentId \in DocumentIds : SyncOfflineEditsMessage(s, documentId)

\* lines 290-310 and 335-341: sort, apply, then either the save or the reply
\* (`attempted` is the number of iterations the loop has made: the handler's
\* position in the array it goes on holding)
Replay(h, m, serverShadow) ==
  LET userOfflineEdits == handlers[h].userOfflineEdits
      sorted == sort(arrays[userOfflineEdits])
      r == applyEach(sorted, serverShadow, 0)
  IN /\ arrays' = [arrays EXCEPT ![userOfflineEdits] = sorted]
     /\ IF r.appliedCount > 0
          THEN /\ documentShadows' = updateDocumentShadow(r.serverShadow)
               /\ handlers' = [Await(h, "save", assign(m, "content", r.serverShadow))
                                 EXCEPT ![h].appliedCount = r.appliedCount,
                                        ![h].attempted = Len(sorted)]
               /\ Silent
               /\ UNCHANGED offlineEdits
          ELSE /\ documentShadows' = updateDocumentShadow(serverShadow)
               /\ offlineEdits' = delete(Key(handlers[h].user, handlers[h].documentId))
               /\ Send(<<Emit(handlers[h].socket, {handlers[h].socket},
                                OfflineEditsSynced(r.appliedCount))>>)
               /\ handlers' = Done(h)

SyncFindById(h) ==
  /\ At(h, "sync-offline-edits", "findById")
  /\ IF ~Found(handlers[h].documentId)
       THEN /\ Send(<<Emit(handlers[h].socket, {handlers[h].socket},
                             ErrorMessage("Document not found"))>>)
            /\ handlers' = Done(h)
            /\ UNCHANGED <<documentShadows, offlineEdits, arrays>>
     ELSE IF HasShadow
       THEN Replay(h, Loaded(document), documentShadows[DocId])
       ELSE /\ handlers' = Await(h, "getDocumentShadow", Loaded(document))
            /\ Silent
            /\ UNCHANGED <<documentShadows, offlineEdits, arrays>>
  /\ UNCHANGED <<document, rooms, socketUser, connection, users, client, received, now>>

SyncShadowLoaded(h) ==
  /\ At(h, "sync-offline-edits", "getDocumentShadow")
  /\ Replay(h, Copy(h), document.content)
  /\ UNCHANGED <<document, rooms, socketUser, connection, users, client, received, now>>

SyncSaved(h) ==
  /\ At(h, "sync-offline-edits", "save")
  /\ document' = save(document, Copy(h))
  /\ LET m == Loaded(handlers[h].document)
     IN handlers' = Await(h, "addVersion",
          addVersion(m, m.document.content, handlers[h].user.id,
                     Description("Synced offline edits", handlers[h].appliedCount)))
  /\ Silent
  /\ UNCHANGED <<documentShadows, rooms, socketUser, connection, users, offlineEdits, arrays, client, received, now>>

DocumentUpdated(h) ==
  [Message("document-updated") EXCEPT
     !.content = handlers[h].document.content,
     !.userId = handlers[h].user.id,
     !.username = handlers[h].user.username]

SyncVersionAdded(h) ==
  /\ At(h, "sync-offline-edits", "addVersion")
  /\ document' = save(document, Copy(h))
  /\ offlineEdits' = delete(Key(handlers[h].user, handlers[h].documentId))
  /\ Send(<<Emit(handlers[h].socket, ioTo, DocumentUpdated(h)),
            Emit(handlers[h].socket, ioTo, VersionCreated(h)),
            Emit(handlers[h].socket, {handlers[h].socket},
                 OfflineEditsSynced(handlers[h].appliedCount))>>)
  /\ handlers' = Done(h)
  /\ UNCHANGED <<documentShadows, rooms, socketUser, connection, users, arrays, client, received, now>>

----------------------------------------------------------------------------
(* The routes PUT /api/documents/:id and POST /api/documents/:id/revert/:i  *)
(* req.user.id is the string the auth middleware puts there.                *)

HttpUsers == {"u2", "u3"}
ContentInputs == {[InitialContent EXCEPT ![2] = "b"]}
\* the :versionIndex path parameters tried, as strings of characters
VersionIndexParams ==
  {<<"0">>, <<"1">>, <<"-", "1">>, <<"a", "b", "c">>, <<"1", "x">>}

DigitValue ==
  [c \in {"0", "1", "2", "3", "4", "5", "6", "7", "8", "9"} |->
     CASE c = "0" -> 0 [] c = "1" -> 1 [] c = "2" -> 2 [] c = "3" -> 3 [] c = "4" -> 4
       [] c = "5" -> 5 [] c = "6" -> 6 [] c = "7" -> 7 [] c = "8" -> 8 [] c = "9" -> 9]

\* the longest prefix of decimal digits
RECURSIVE DigitPrefix(_)
DigitPrefix(chars) ==
  IF chars = <<>> \/ Head(chars) \notin DOMAIN DigitValue THEN <<>>
  ELSE <<Head(chars)>> \o DigitPrefix(Tail(chars))

RECURSIVE Decimal(_)
Decimal(digits) ==
  IF digits = <<>> THEN 0
  ELSE 10 * Decimal(SubSeq(digits, 1, Len(digits) - 1)) + DigitValue[Last(digits)]

\* a parse that drops the sign
parseIntUnsigned(param) ==
  LET signed == param # <<>> /\ Head(param) \in {"-", "+"}
      digits == DigitPrefix(IF signed THEN Tail(param) ELSE param)
  IN IF digits = <<>> THEN [isNaN |-> TRUE, n |-> 0]
     ELSE [isNaN |-> FALSE, n |-> Decimal(digits)]

\* parseInt without a radix, of a string with no leading white space and no
\* 0x prefix: an optional sign, then the longest prefix of digits; what
\* follows the digits is ignored, and no digit at all gives NaN
parseInt(param) ==
  LET signed == param # <<>> /\ Head(param) \in {"-", "+"}
      digits == DigitPrefix(IF signed THEN Tail(param) ELSE param)
  IN IF digits = <<>> THEN [isNaN |-> TRUE, n |-> 0]
     ELSE [isNaN |-> FALSE,
           n |-> IF Head(param) = "-" THEN 0 - Decimal(digits) ELSE Decimal(digits)]

Request(event, u, arg) ==
  Handler(event, 0, [id |-> Str(u), username |-> u], <<>>, arg)

Response(status) == [Message("response") EXCEPT !.message = status]

Respond(h, status) ==
  /\ Send(<<Emit(0, {}, Response(status))>>)
  /\ handlers' = Done(h)

OnPut(u) ==
  /\ \E content \in ContentInputs : Start(Request("put", u, content))
  /\ Silent
  /\ UNCHANGED <<document, documentShadows, rooms, socketUser, connection, users, offlineEdits, arrays, client, now>>

OnRevert(u) ==
  /\ \E param \in VersionIndexParams : Start(Request("revert", u, param))
  /\ Silent
  /\ UNCHANGED <<document, documentShadows, rooms, socketUser, connection, users, offlineEdits, arrays, client, now>>

PutFindById(h) ==
  /\ At(h, "put", "findById")
  /\ IF ~HasAccess(document, handlers[h].user.id)
       THEN Respond(h, "403")
       ELSE /\ handlers' = Await(h, "save",
                 IF handlers[h].arg # document.content
                   THEN addVersion(Loaded(document), handlers[h].arg, handlers[h].user.id,
                                   Description("Document updated", 0))
                   ELSE Loaded(document))
            /\ Silent
  /\ UNCHANGED <<document, documentShadows, rooms, socketUser, connection, users, offlineEdits, arrays, client, received, now>>

PutSaved(h) ==
  /\ At(h, "put", "save")
  /\ document' = save(document, Copy(h))
  /\ Respond(h, "200")
  /\ UNCHANGED <<documentShadows, rooms, socketUser, connection, users, offlineEdits, arrays, client, received, now>>

\* documentSchema.methods.revertToVersion, up to its save()
revertToVersion(m, versionIndex, userId) ==
  addVersion(m, m.document.versions[versionIndex + 1].content, userId,
             Description("Reverted to version", versionIndex + 1))

RevertFindById(h) ==
  /\ At(h, "revert", "findById")
  /\ LET versionIndex == parseInt(handlers[h].arg)
     IN IF ~HasAccess(document, handlers[h].user.id)
          THEN Respond(h, "403")
        ELSE IF \/ versionIndex.isNaN
                \/ versionIndex.n < 0
                \/ versionIndex.n >= Len(document.versions)
          THEN Respond(h, "400")
        ELSE /\ handlers' = Await(h, "save",
                    revertToVersion(Loaded(document), versionIndex.n, handlers[h].user.id))
             /\ Silent
  /\ UNCHANGED <<document, documentShadows, rooms, socketUser, connection, users, offlineEdits, arrays, client, received, now>>

RevertSaved(h) ==
  /\ At(h, "revert", "save")
  /\ document' = save(document, Copy(h))
  /\ Respond(h, "200")
  /\ UNCHANGED <<documentShadows, rooms, socketUser, connection, users, offlineEdits, arrays, client, received, now>>

----------------------------------------------------------------------------

\* the positions a handler in progress can have in `handlers`
Positions == 1..MaxMessages

Next ==
  \/ \E s \in Sessions : OnJoinDocument(s) \/ OnDocumentChange(s)
  \/ \E u \in HttpUsers : OnPut(u) \/ OnRevert(u)
  \/ \E h \in Positions :
       \/ JoinFindById(h) \/ JoinEditorSaved(h) \/ JoinShadowLoaded(h)
       \/ ChangeFindById(h) \/ ChangeShadowLoaded(h)
       \/ ChangeSaved(h) \/ ChangeVersionAdded(h)
       \/ PutFindById(h) \/ PutSaved(h) \/ RevertFindById(h) \/ RevertSaved(h)
  \/ Tick

Spec == Init /\ [][Next]_vars

\* Editor pages on the connections, and the handlers their messages start
\* the window's offline and online events
ClientOffline(s) ==
  /\ client[s].document
  /\ client[s].isOnline
  /\ client' = [client EXCEPT ![s].isOnline = FALSE]
  /\ Silent
  /\ UNCHANGED <<document, documentShadows, rooms, socketUser, connection, users, offlineEdits, arrays, handlers, received, now>>

ClientOnline(s) ==
  /\ client[s].document
  /\ ~client[s].isOnline
  /\ client' = [client EXCEPT ![s].isOnline = TRUE]
  /\ Silent
  /\ UNCHANGED <<document, documentShadows, rooms, socketUser, connection, users, offlineEdits, arrays, handlers, received, now>>

\* handleSyncOfflineEdits: the page emits sync-offline-edits, which the
\* server receives, and clears its local store
handleSyncOfflineEdits(s) ==
  /\ client[s].document
  /\ client[s].isOnline
  /\ client[s].offlineEditsCount # 0
  /\ SyncOfflineEdits(s, DocId)
  /\ client' = [client EXCEPT ![s].offlineEdits = <<>>]

NextEditor ==
  \/ \E s \in Sessions :
       \/ ClientOpen(s) \/ ClientEdit(s) \/ ClientSync(s) \/ ClientReceive(s)
  \/ \E h \in Positions :
       \/ JoinFindById(h) \/ JoinEditorSaved(h) \/ JoinShadowLoaded(h)
       \/ ChangeFindById(h) \/ ChangeShadowLoaded(h)
       \/ ChangeSaved(h) \/ ChangeVersionAdded(h)
  \/ Tick

SpecEditor == Init /\ [][NextEditor]_vars

\* the owner's Editor page, going offline and coming back
NextOffline ==
  \/ \E s \in {1} :
       \/ ClientOpen(s) \/ ClientEdit(s) \/ ClientSync(s) \/ ClientReceive(s)
       \/ ClientOffline(s) \/ ClientOnline(s) \/ handleSyncOfflineEdits(s)
  \/ \E h \in Positions :
       \/ JoinFindById(h) \/ JoinEditorSaved(h) \/ JoinShadowLoaded(h)
       \/ ChangeFindById(h) \/ ChangeShadowLoaded(h)
       \/ ChangeSaved(h) \/ ChangeVersionAdded(h)
  \/ Tick

SpecOffline == Init /\ [][NextOffline]_vars

\* The edits a connection sends one after the other, each made on the text
\* the one before it left: the owner rewrites the first character twice, the
\* collaborator the second character once.
SuccessiveEdits(s) ==
  IF s = 1
    THEN <<patch_make(InitialContent, [InitialContent EXCEPT ![1] = "a"]),
           patch_make([InitialContent EXCEPT ![1] = "a"],
                      [InitialContent EXCEPT ![1] = "b"])>>
  ELSE IF s = 2
    THEN <<patch_make(InitialContent, [InitialContent EXCEPT ![2] = "b"])>>
  ELSE <<>>

\* the next document-change message of the connection arrives
OnSuccessiveChange(s) ==
  /\ received[s] < Len(SuccessiveEdits(s))
  /\ Start(Handler("document-change", s, socketUser[s],
                   SuccessiveEdits(s)[received[s] + 1], 0))
  /\ Silent
  /\ UNCHANGED <<document, documentShadows, rooms, socketUser, connection, users, offlineEdits, arrays, client, now>>

\* two connections sending edits in succession, and the page of a third
\* connection that watches
NextOrder ==
  \/ \E s \in {1, 2} : OnSuccessiveChange(s)
  \/ ClientOpen(4) \/ ClientReceive(4)
  \/ \E h \in Positions :
       \/ JoinFindById(h) \/ JoinEditorSaved(h) \/ JoinShadowLoaded(h)
       \/ ChangeFindById(h) \/ ChangeShadowLoaded(h)
       \/ ChangeSaved(h) \/ ChangeVersionAdded(h)
  \/ Tick

SpecOrder == Init /\ [][NextOrder]_vars

\* messages of the connections that name any document id
JoinDocumentMessage(s) ==
  /\ \E documentId \in DocumentIds :
       Start(On(Handler("join-document", s, socketUser[s], <<>>, 0), documentId))
  /\ Silent
  /\ UNCHANGED <<document, documentShadows, rooms, socketUser, connection, users, offlineEdits, arrays, client, now>>

DocumentChangeMessage(s) ==
  /\ \E documentId \in DocumentIds, patches \in PatchInputs(s) :
       Start(On(Handler("document-change", s, socketUser[s], patches, 0), documentId))
  /\ Silent
  /\ UNCHANGED <<document, documentShadows, rooms, socketUser, connection, users, offlineEdits, arrays, client, now>>

\* the socket handlers, with the offline buffer
NextSocket ==
  \/ \E s \in Sessions :
       \/ JoinDocumentMessage(s) \/ DocumentChangeMessage(s) \/ OnCursorPosition(s)
       \/ OnSaveOfflineEdit(s) \/ OnSyncOfflineEdits(s)
  \/ \E h \in Positions :
       \/ JoinFindById(h) \/ JoinEditorSaved(h) \/ JoinShadowLoaded(h)
       \/ ChangeFindById(h) \/ ChangeShadowLoaded(h)
       \/ ChangeSaved(h) \/ ChangeVersionAdded(h)
       \/ CursorFindById(h) \/ CursorSaved(h)
       \/ SyncFindById(h) \/ SyncShadowLoaded(h)
       \/ SyncSaved(h) \/ SyncVersionAdded(h)
  \/ Tick

SpecSocket == Init /\ [][NextSocket]_vars

\* Offline replay alone: bundles of several hunks buffered and replayed
NextReplay ==
  \/ \E s \in {1, 2} : OnSaveOfflineBundle(s) \/ OnSyncOfflineEdits(s)
  \/ \E h \in Positions :
       \/ SyncFindById(h) \/ SyncShadowLoaded(h)
       \/ SyncSaved(h) \/ SyncVersionAdded(h)

SpecReplay == Init /\ [][NextReplay]_vars

\* document-change traffic alone
NextChanges ==
  \/ \E s \in Sessions : OnDocumentChange(s)
  \/ \E h \in Positions :
       \/ ChangeFindById(h) \/ ChangeShadowLoaded(h)
       \/ ChangeSaved(h) \/ ChangeVersionAdded(h)
  \/ Tick

SpecChanges == Init /\ [][NextChanges]_vars

\* document-change traffic with saves that can fail
NextFailure ==
  \/ \E s \in Sessions : OnDocumentChange(s)
  \/ \E h \in Positions :
       \/ ChangeFindById(h) \/ ChangeShadowLoaded(h)
       \/ ChangeSaved(h) \/ ChangeSaveFailed(h) \/ ChangeVersionAdded(h)
  \/ Tick

SpecFailure == Init /\ [][NextFailure]_vars

\* the messages and closings that touch the roster
NextPresence ==
  \/ \E s \in Members :
       \/ OnJoinDocument(s) \/ OnCursorPosition(s)
       \/ OnLeaveDocument(s) \/ OnDisconnect(s)
  \/ \E h \in Positions :
       \/ JoinFindById(h) \/ JoinEditorSaved(h) \/ JoinShadowLoaded(h)
       \/ CursorFindById(h) \/ CursorSaved(h)
       \/ LeaveFindById(h) \/ LeaveSaved(h)
       \/ DisconnectFind(h) \/ DisconnectSaved(h)

SpecPresence == Init /\ [][NextPresence]_vars

\* a step of a handler that is waiting for the database
PresenceStep ==
  \E h \in Positions :
    \/ JoinFindById(h) \/ JoinEditorSaved(h) \/ JoinShadowLoaded(h)
    \/ CursorFindById(h) \/ CursorSaved(h)
    \/ LeaveFindById(h) \/ LeaveSaved(h)
    \/ DisconnectFind(h) \/ DisconnectSaved(h)

\* every database operation completes, so every handler runs to its end;
\* no message has to arrive
SpecPresenceFair == SpecPresence /\ WF_vars(PresenceStep)

\* connections being made, and messages of those that were accepted
NextHandshake ==
  \/ \E s \in Sessions : Handshake(s) \/ OnJoinDocument(s) \/ OnCursorPosition(s)
  \/ \E h \in Positions :
       \/ JoinFindById(h) \/ JoinEditorSaved(h) \/ JoinShadowLoaded(h)
       \/ CursorFindById(h) \/ CursorSaved(h)

SpecHandshake == InitHandshake /\ [][NextHandshake]_vars

----------------------------------------------------------------------------
(* Serial executions of the document-change messages that have arrived *)

PatchOf(s) == CHOOSE patches \in PatchInputs(s) : TRUE

\* the content one document-change leaves when nothing else is in progress
SerialChange(text, patches) ==
  LET r == applyPatch(text, patches)
  IN IF r.success THEN r.patchedText ELSE text

RECURSIVE SerialRun(_, _)
SerialRun(text, order) ==
  IF order = <<>> THEN text
  ELSE SerialRun(SerialChange(text, PatchOf(Head(order))), Tail(order))

Changes == Sum(received, Sessions)

\* the orders in which the messages that have arrived can be taken one by one
Orders ==
  {order \in [1..Changes -> Sessions] :
     \A s \in Sessions :
       Cardinality({i \in 1..Changes : order[i] = s}) = received[s]}

SerialOutcomes == {SerialRun(InitialContent, order) : order \in Orders}

\* nothing is in progress: no handler, no message on its way to a page, no
\* edit a page has still to send
Quiescent ==
  /\ AllDone
  /\ \A s \in Sessions : inbox[s] = <<>> /\ ~client[s].pendingChanges

SerializedContent == AllDone => document.content \in SerialOutcomes

----------------------------------------------------------------------------

Reflects(text, patches) ==
  \A j \in DOMAIN patches : text[patches[j].start1] = patches[j].text2

\* C3: at the moment a document-change is relayed to the peers, the persisted
\* document.content reflects every hunk of the relayed patch.
RelayedPatchPersisted ==
  \A i \in DOMAIN emitted :
    emitted[i].msg.type = "document-change"
      => Reflects(document.content, emitted[i].msg.patches)

\* C4: a step that answers sync-required emits that one message only, to the
\* sender only, carrying the current document.content, and leaves the
\* document and a cached shadow as they were.
FailedPatchChangesNothing ==
  [][\A i \in DOMAIN emitted' :
       emitted'[i].msg.type = "sync-required"
         => /\ Len(emitted') = 1
            /\ emitted'[i].to = {emitted'[i].socket}
            /\ emitted'[i].msg.content = document.content
            /\ document' = document
            /\ HasShadow => documentShadows' = documentShadows]_vars

Saving == Cardinality({h \in 1..Len(handlers) : At(h, "document-change", "save")})

\* C5: every document-change whose save has completed is relayed in that
\* step, and every relay carries the patch, userId and username of a sender
\* whose save was pending and goes to the room without the sending socket.
RelayFanOut ==
  [][/\ \A i \in DOMAIN emitted' :
          emitted'[i].msg.type = "document-change"
            => /\ emitted'[i].to = rooms' \ {emitted'[i].socket}
               /\ \E h \in 1..Len(handlers) :
                    /\ At(h, "document-change", "save")
                    /\ handlers[h].socket = emitted'[i].socket
                    /\ emitted'[i].msg.patches = handlers[h].patches
                    /\ emitted'[i].msg.userId = socketUser[emitted'[i].socket].id
                    /\ emitted'[i].msg.username = socketUser[emitted'[i].socket].username
     /\ Saving' < Saving
          => \E i \in DOMAIN emitted' : emitted'[i].msg.type = "document-change"]_vars

\* a relay of a sender that is in the room with a peer
RelayReachesPeer ==
  \E i \in DOMAIN emitted :
    /\ emitted[i].msg.type = "document-change"
    /\ emitted[i].socket \in rooms
    /\ emitted[i].to # {}

\* the user is the document's owner or one of its collaborators
IsMember(doc, id) ==
  \/ doc.owner[2] = id[2]
  \/ \E i \in DOMAIN doc.collaborators : doc.collaborators[i][2] = id[2]

\* C6: the document-change of a user who is neither owner nor collaborator
\* never gets as far as changing the shadow and saving the content.
EditsAuthorized ==
  \A h \in 1..Len(handlers) :
    (handlers[h].event = "document-change" /\ ~IsMember(document, handlers[h].user.id))
      => handlers[h].pc \in {"findById", "getDocumentShadow"}

----------------------------------------------------------------------------

\* handler h, still in progress after the step, waits for its addVersion
AppendsNext(h) ==
  /\ Len(handlers') = Len(handlers)
  /\ handlers'[h].pc = "addVersion"

VersionsAppendOnly ==
  [][/\ Len(document'.versions) >= Len(document.versions)
     /\ SubSeq(document'.versions, 1, Len(document.versions)) = document.versions
     /\ Len(document'.versions) > Len(document.versions)
          => document'.currentVersion = Len(document'.versions) - 1]_vars

\* the version a revert request names, as an index of the sequence
Target(h) == parseInt(handlers[h].arg).n + 1

\* C9: a revert to a valid index appends one version with the content of the
\* version it names and the description "Reverted to version i+1", and
\* leaves document.content equal to that content.
RevertRestores ==
  [][\A h \in 1..Len(handlers) :
       RevertSaved(h)
         => /\ Len(document'.versions) = Len(document.versions) + 1
            /\ Last(document'.versions).content = document.versions[Target(h)].content
            /\ Last(document'.versions).changeDescription
                 = Description("Reverted to version", Target(h))
            /\ document'.content = document.versions[Target(h)].content]_vars

\* C10: when a revert completes, a cached shadow equals the content of the
\* version reverted to.
RevertRefreshesShadow ==
  [][\A h \in 1..Len(handlers) :
       RevertSaved(h)
         => (HasShadow'
               => documentShadows'[DocId] = document.versions[Target(h)].content)]_vars

----------------------------------------------------------------------------

\* C11: the step that completes a revert while sessions are in the room emits
\* document-updated carrying the reverted content and version-created, both
\* to the whole room.
RevertNotifiesRoom ==
  [][\A h \in 1..Len(handlers) :
       (RevertSaved(h) /\ rooms # {})
         => /\ \E i \in DOMAIN emitted' :
                 /\ emitted'[i].msg.type = "document-updated"
                 /\ emitted'[i].msg.content = document.versions[Target(h)].content
                 /\ emitted'[i].to = rooms
            /\ \E i \in DOMAIN emitted' :
                 /\ emitted'[i].msg.type = "version-created"
                 /\ emitted'[i].to = rooms]_vars

\* a parameter that is negative, one that is not a number, and the index 1
\* when the document has a single version
InvalidIndex(param, doc) ==
  \/ param \in {<<"-", "1">>, <<"a", "b", "c">>}
  \/ param = <<"1">> /\ Len(doc.versions) <= 1

\* C12: a revert request of a member whose index is negative, not a number
\* or not below the number of versions is answered 400 and leaves the
\* document, with its versions, currentVersion and content, unchanged; no
\* handler of such a request ever waits for a save.
RevertRejectsInvalidIndex ==
  [][\A h \in 1..Len(handlers) :
       (/\ RevertFindById(h)
        /\ HasAccess(document, handlers[h].user.id)
        /\ InvalidIndex(handlers[h].arg, document))
         => /\ emitted' = <<Emit(0, {}, Response("400"))>>
            /\ handlers' = Done(h)
            /\ document' = document]_vars

\* an invalid index has been answered 400 on a document that has more than
\* its initial version
InvalidIndexRejected ==
  /\ Len(document.versions) > 1
  /\ \E i \in DOMAIN emitted : emitted[i].msg = Response("400")

----------------------------------------------------------------------------
(* The replay of offline edits *)

\* handler h sorts and applies its offline edits in this step
Replays(h) ==
  \/ SyncShadowLoaded(h)
  \/ SyncFindById(h) /\ Found(handlers[h].documentId) /\ HasShadow

\* the shadow the replay of handler h starts from
ReplayBase(h) ==
  IF handlers[h].pc = "getDocumentShadow" THEN document.content
  ELSE documentShadows[DocId]

Ascending(edits) ==
  \A i, j \in DOMAIN edits : i < j => edits[i].timestamp <= edits[j].timestamp

SameEdits(a, b) ==
  /\ Len(a) = Len(b)
  /\ \A i \in DOMAIN a :
       Cardinality({j \in DOMAIN a : a[j] = a[i]})
         = Cardinality({j \in DOMAIN b : b[j] = a[i]})

\* C13: a replay attempts the buffered bundles of its key in ascending order
\* of client timestamp, whatever the order they were pushed in: the array
\* after the step holds the same edits in ascending order, and the shadow and
\* count the step leaves are those of applying them in that order.
ReplayInTimestampOrder ==
  [][\A h \in 1..Len(handlers) :
       Replays(h)
         => LET attempted == arrays'[handlers[h].userOfflineEdits]
                r == applyEach(attempted, ReplayBase(h), 0)
            IN /\ Ascending(attempted)
               /\ SameEdits(attempted, arrays[handlers[h].userOfflineEdits])
               /\ IF r.appliedCount > 0
                    THEN /\ documentShadows'[DocId] = r.serverShadow
                         /\ handlers'[h].appliedCount = r.appliedCount
                    ELSE emitted' = <<Emit(handlers[h].socket, {handlers[h].socket},
                                          OfflineEditsSynced(0))>>]_vars

\* a replay has applied two bundles of which the later one applies only
\* after the earlier one
ReplayedInOrder ==
  \E h \in 1..Len(handlers) :
    /\ At(h, "sync-offline-edits", "save")
    /\ handlers[h].appliedCount = 2
    /\ handlers[h].document.content = [InitialContent EXCEPT ![1] = "b"]

\* C14: a replay that applied at least one bundle ends with document.content
\* equal to the accumulated text, one more version that holds this text with
\* the description "Synced N offline edits", N the number applied, and
\* document-updated with the text and version-created sent to the whole
\* room; a replay that applied none leaves document and shadow as they were
\* and sends nothing but its reply.
ReplayCommits ==
  [][\A h \in 1..Len(handlers) :
       /\ SyncVersionAdded(h)
            => /\ document'.content = handlers[h].document.content
               /\ Len(document'.versions) = Len(document.versions) + 1
               /\ Last(document'.versions).content = handlers[h].document.content
               /\ Last(document'.versions).changeDescription
                    = Description("Synced offline edits", handlers[h].appliedCount)
               /\ \E i \in DOMAIN emitted' :
                    /\ emitted'[i].msg.type = "document-updated"
                    /\ emitted'[i].msg.content = handlers[h].document.content
                    /\ emitted'[i].to = rooms
               /\ \E i \in DOMAIN emitted' :
                    /\ emitted'[i].msg.type = "version-created"
                    /\ emitted'[i].to = rooms
       /\ (Replays(h) /\ Len(handlers') < Len(handlers))
            => /\ document' = document
               /\ HasShadow => documentShadows' = documentShadows
               /\ Len(emitted') = 1]_vars

\* the number of bundles of edits, taken in turn, that apply
RECURSIVE Applied(_, _)
Applied(edits, text) ==
  IF edits = <<>> THEN 0
  ELSE LET r == applyPatch(text, Head(edits).patches)
       IN IF r.success THEN 1 + Applied(Tail(edits), r.patchedText)
          ELSE Applied(Tail(edits), text)

\* handler h of sync-offline-edits, which found its document, returns in
\* this step
SyncReturns(h) ==
  \/ SyncVersionAdded(h)
  \/ Replays(h) /\ Len(handlers') < Len(handlers)

Replies(calls) ==
  {i \in DOMAIN calls : calls[i].msg.type = "offline-edits-synced"}

DrainClearsQueue ==
  [][/\ \A h \in 1..Len(handlers) :
          SyncReturns(h)
            => Key(handlers[h].user, handlers[h].documentId) \notin DOMAIN offlineEdits'
     /\ \A s \in Sessions :
          (SyncOfflineEditsMessage(s, DocId) /\ Key(socketUser[s], DocId) \notin DOMAIN offlineEdits)
            => /\ handlers' = handlers
               /\ \A i \in Replies(emitted') : emitted'[i].msg.count = 0
               /\ document' = document
               /\ documentShadows' = documentShadows]_vars

\* after a replay that committed, with nothing buffered and nothing in
\* progress, a sync-offline-edits has been answered count 0
DrainedThenEmpty ==
  /\ AllDone
  /\ offlineEdits = <<>>
  /\ Len(document.versions) > 1
  /\ Last(document.versions).changeDescription.text = "Synced offline edits"
  /\ Len(emitted) = 1
  /\ emitted[1].msg.type = "offline-edits-synced"
  /\ emitted[1].msg.count = 0
  /\ Last(document.versions).author[2] = socketUser[emitted[1].socket].id[2]

----------------------------------------------------------------------------
(* Documents that do not exist, and joining *)

NotFoundError(socket) == <<Emit(socket, {socket}, ErrorMessage("Document not found"))>>

\* C17: a join-document, document-change, cursor-position or
\* sync-offline-edits that names an id no document has is answered with an
\* error to the sender only and changes no document, shadow or room.
NotFoundAnswersError ==
  [][/\ \A h \in 1..Len(handlers) :
          (/\ handlers[h].documentId = NoDocId
           /\ \/ JoinFindById(h) \/ ChangeFindById(h)
              \/ CursorFindById(h) \/ SyncFindById(h))
            => /\ emitted' = NotFoundError(handlers[h].socket)
               /\ UNCHANGED <<document, documentShadows, rooms>>
     /\ \A s \in Sessions :
          SyncOfflineEditsMessage(s, NoDocId)
            => /\ \A i \in DOMAIN emitted' : emitted'[i].msg.type = "error"
               /\ UNCHANGED <<document, documentShadows, rooms>>]_vars

\* handler h of join-document sends its replies in this step
JoinReplies(h) ==
  \/ JoinShadowLoaded(h)
  \/ JoinEditorSaved(h) /\ Len(handlers') < Len(handlers)

IsPresent(doc, id) ==
  \E i \in DOMAIN doc.activeEditors :
    /\ doc.activeEditors[i].userId[2] = id[2]
    /\ doc.activeEditors[i].cursorPosition = 0
    /\ doc.activeEditors[i].selection = [start |-> 0, end |-> 0]

\* C18: the join-document of the owner or of a collaborator puts the socket
\* in the room, saves the user's presence with cursor 0 and selection
\* {0, 0}, and sends document-data to the joiner and editor-joined to the
\* other sockets of the room.
MemberJoins ==
  [][\A h \in 1..Len(handlers) :
       /\ (/\ JoinFindById(h)
            /\ Found(handlers[h].documentId)
            /\ IsMember(document, handlers[h].user.id))
            => /\ handlers[h].socket \in rooms'
               /\ Len(handlers') = Len(handlers)
       /\ JoinEditorSaved(h) => IsPresent(document', handlers[h].user.id)
       /\ JoinReplies(h)
            => /\ \E i \in DOMAIN emitted' :
                    /\ emitted'[i].msg.type = "document-data"
                    /\ emitted'[i].to = {handlers[h].socket}
               /\ \E i \in DOMAIN emitted' :
                    /\ emitted'[i].msg.type = "editor-joined"
                    /\ emitted'[i].to = rooms \ {handlers[h].socket}]_vars

\* C19: the join-document of a user who is neither owner nor collaborator is
\* answered 'Access denied', to the sender only, and changes neither the
\* room nor the document and its presence list; no socket of such a user
\* is ever in the room.
NonMemberDenied ==
  [][/\ \A h \in 1..Len(handlers) :
          (/\ JoinFindById(h)
           /\ Found(handlers[h].documentId)
           /\ ~IsMember(document, handlers[h].user.id))
            => /\ emitted' = <<Emit(handlers[h].socket, {handlers[h].socket},
                                    ErrorMessage("Access denied"))>>
               /\ handlers' = Done(h)
               /\ rooms' = rooms
               /\ document' = document
     /\ \A s \in rooms' : IsMember(document', socketUser[s].id)]_vars

\* a user who is neither owner nor collaborator has been denied while a
\* member is in the room
DeniedBesideMember ==
  /\ rooms # {}
  /\ \E s \in Sessions :
       /\ ~IsMember(document, socketUser[s].id)
       /\ emitted = <<Emit(s, {s}, ErrorMessage("Access denied"))>>

\* C20: the replies of a join-document include offline-edits-available if
\* and only if the buffer of (joining user, document) is not empty; the
\* notice goes to the joiner only and its count is the number of bundles
\* buffered.
JoinNotice ==
  [][\A h \in 1..Len(handlers) :
       JoinReplies(h)
         => LET key == Key(handlers[h].user, handlers[h].documentId)
                n == IF key \in DOMAIN offlineEdits
                       THEN Len(arrays[offlineEdits[key]]) ELSE 0
                notices == {i \in DOMAIN emitted' :
                              emitted'[i].msg.type = "offline-edits-available"}
            IN /\ notices # {} <=> n > 0
               /\ Cardinality(notices) <= 1
               /\ \A i \in notices :
                    /\ emitted'[i].to = {handlers[h].socket}
                    /\ emitted'[i].msg.count = n]_vars

\* a joiner has been told of the two bundles buffered for it
NoticeOfTwo ==
  \E i \in DOMAIN emitted :
    /\ emitted[i].msg.type = "offline-edits-available"
    /\ emitted[i].msg.count = 2

----------------------------------------------------------------------------
(* Presence: cursor updates, leaving, disconnecting *)

\* the positions of the roster that hold an entry of the user
Entries(editors, userId) ==
  {i \in DOMAIN editors : editors[i].userId[2] = userId[2]}

\* C21: when the handler of a cursor-position message for an existing
\* document has finished, the roster holds exactly one entry of the sender,
\* with the cursor position and selection of the message, and the message has
\* been relayed, with the sender's id and name and the same cursor position,
\* to the sockets of the room other than the sender's.
CursorUpdatesPresence ==
  [][\A h \in Positions :
       At(h, "cursor-position", "updateActiveEditor") /\ handlers' = Done(h) =>
         LET entries == Entries(document'.activeEditors, handlers[h].user.id)
         IN /\ Cardinality(entries) = 1
            /\ \A i \in entries :
                 /\ document'.activeEditors[i].cursorPosition = handlers[h].arg
                 /\ document'.activeEditors[i].selection =
                      [start |-> handlers[h].arg, end |-> handlers[h].arg]
            /\ Len(emitted') = 1
            /\ emitted'[1].to = rooms \ {handlers[h].socket}
            /\ emitted'[1].msg.type = "cursor-position"
            /\ emitted'[1].msg.userId = handlers[h].user.id
            /\ emitted'[1].msg.username = handlers[h].user.username
            /\ emitted'[1].msg.versionIndex = handlers[h].arg]_vars

\* C22: once every handler has finished, every user with a socket in the
\* room that is still connected (one that joined and has neither left nor
\* disconnected) has an entry in the roster.
RosterComplete ==
  AllDone =>
    \A s \in rooms :
      connection[s].status = "connected" =>
        Entries(document.activeEditors, socketUser[s].id) # {}

\* C23: once a connection has been in the room, then whenever it has closed
\* the roster eventually holds no entry of its user.
DisconnectCleansUp ==
  \A s \in Members :
    [](s \in rooms /\ connection[s].status = "connected" =>
         [](connection[s].status = "disconnected" =>
              <>(Entries(document.activeEditors, socketUser[s].id) = {})))

\* C24: when the handler of a leave-document message for an existing document
\* has finished, the roster holds no entry of the sender, editor-left has been
\* sent to the other sockets of the room, and the sender's socket is no longer
\* in the room, where every later relay and broadcast is addressed.
LeaveLeaves ==
  [][\A h \in Positions :
       At(h, "leave-document", "removeActiveEditor") /\ handlers' = Done(h) =>
         /\ Entries(document'.activeEditors, handlers[h].user.id) = {}
         /\ Len(emitted') = 1
         /\ emitted'[1].to = rooms \ {handlers[h].socket}
         /\ emitted'[1].msg.type = "editor-left"
         /\ emitted'[1].msg.userId = handlers[h].user.id
         /\ handlers[h].socket \notin rooms']_vars

----------------------------------------------------------------------------
(* The handshake *)

\* the identity authenticateSocket fixes for a token it accepts
Identity(token) == [id |-> users[token.id]._id, username |-> users[token.id].username]

Accepted(s) == connection[s].status \in {"connected", "disconnected"}

\* C25: a connection is accepted only with a token that is present, verifies
\* and names a user of the collection; one made with another token is refused
\* with an 'Authentication error', has no socket.user and never has a
\* handler.  Every handler belongs to an accepted connection and runs with
\* the identity of the connection's token.
AuthGate ==
  /\ \A s \in Sockets :
       LET token == connection[s].token
           valid == token.present /\ token.verifies /\ token.id \in Users
       IN /\ Accepted(s) => valid /\ socketUser[s] = Identity(token)
          /\ connection[s].status # "handshake" /\ ~valid =>
               /\ connection[s].status \in
                    {"Authentication error: Token not provided",
                     "Authentication error: Invalid token",
                     "Authentication error: User not found"}
               /\ socketUser[s] = NoUser
               /\ s \notin rooms
               /\ \A h \in DOMAIN handlers : handlers[h].socket # s
  /\ \A h \in DOMAIN handlers :
       /\ Accepted(handlers[h].socket)
       /\ handlers[h].user = Identity(connection[handlers[h].socket].token)

\* a forged token and the token of a missing user have been refused, and a
\* handler of an accepted connection is running
RefusedBesideAccepted ==
  /\ \E s \in Sockets :
       /\ connection[s].token.present /\ ~connection[s].token.verifies
       /\ connection[s].status = "Authentication error: Invalid token"
  /\ \E s \in Sockets : connection[s].status = "Authentication error: User not found"
  /\ \E h \in DOMAIN handlers : handlers[h].pc = "updateActiveEditor"

----------------------------------------------------------------------------
(* Offline edits of the Editor page *)

\* the server holds the edit: it is in an array that save-offline-edit filled
Transmitted(edit, heap) ==
  \E a \in DOMAIN heap : \E j \in DOMAIN heap[a] :
    heap[a][j].patches = edit.patches /\ heap[a][j].timestamp = edit.timestamp

\* C26: when the page clears its local store of offline edits, every edit
\* that was in the store has been transmitted to the server.
OfflineEditsReachServer ==
  [][\A s \in Sessions :
       client[s].offlineEdits # <<>> /\ client'[s].offlineEdits = <<>> =>
         \A i \in DOMAIN client[s].offlineEdits :
           Transmitted(client[s].offlineEdits[i], arrays')]_vars

\* C27: save-offline-edit puts one edit, with the sender's id and name, at the
\* tail of the queue of the key (sender's user, document), which it creates
\* if absent, and replies offline-edit-saved to the sender alone; the queues
\* of the other keys, the shadow, the document, the room and the handlers in
\* progress are as before.
SaveOfflineEditFrame ==
  [][\A s \in Sessions :
       /\ Len(emitted') = 1
       /\ emitted'[1].msg.type = "offline-edit-saved"
       /\ emitted'[1].socket = s
       => \E documentId \in DocumentIds :
            LET key == <<toString(socketUser[s].id), documentId>>
                before == IF key \in DOMAIN offlineEdits
                            THEN arrays[offlineEdits[key]] ELSE <<>>
            IN /\ DOMAIN offlineEdits' = DOMAIN offlineEdits \cup {key}
               /\ Len(arrays'[offlineEdits'[key]]) = Len(before) + 1
               /\ SubSeq(arrays'[offlineEdits'[key]], 1, Len(before)) = before
               /\ Last(arrays'[offlineEdits'[key]]).userId = socketUser[s].id
               /\ Last(arrays'[offlineEdits'[key]]).username = socketUser[s].username
               /\ \A k \in DOMAIN offlineEdits \ {key} :
                    arrays'[offlineEdits'[k]] = arrays[offlineEdits[k]]
               /\ emitted'[1].to = {s}
               /\ UNCHANGED <<document, documentShadows, rooms, handlers, inbox>>]_vars

\* an edit has just been put behind another in one queue, with a queue under
\* another key
SavedBehindAnother ==
  /\ Len(emitted) = 1
  /\ emitted[1].msg.type = "offline-edit-saved"
  /\ \E key \in DOMAIN offlineEdits :
       /\ key[1] = toString(socketUser[emitted[1].socket].id)
       /\ Len(arrays[offlineEdits[key]]) = 2
       /\ arrays[offlineEdits[key]][1].patches # arrays[offlineEdits[key]][2].patches
  /\ Cardinality(DOMAIN offlineEdits) = 2

\* C28: no step of a replay requested by a user who is neither the owner nor
\* a collaborator changes the shadow, the content or the versions, or sends
\* document-updated or version-created.
OutsiderReplayChangesNothing ==
  [][\A h \in Positions :
       /\ SyncFindById(h) \/ SyncShadowLoaded(h) \/ SyncSaved(h) \/ SyncVersionAdded(h)
       /\ ~IsMember(document, handlers[h].user.id)
       => /\ documentShadows' = documentShadows
          /\ document'.content = document.content
          /\ document'.versions = document.versions
          /\ \A i \in DOMAIN emitted' :
               emitted'[i].msg.type \notin {"document-updated", "version-created"}]_vars

----------------------------------------------------------------------------
(* Order of application and of relay *)

\* the bundle had not been applied when the text was produced: the text
\* still has, where each hunk writes, what the hunk expects to find
NotYetApplied(patches, text) ==
  \A i \in DOMAIN patches : text[patches[i].start1] = patches[i].text1

\* C29: when a change is relayed, no peer it is relayed to has already been
\* sent the relay of a change that was applied to the shadow after it.
BroadcastOrder ==
  [][\A g \in Positions :
       ChangeSaved(g) =>
         \A p \in rooms \ {handlers[g].socket} :
           \A i \in DOMAIN inbox[p] :
             inbox[p][i].type = "document-change" =>
               ~NotYetApplied(inbox[p][i].patches, handlers[g].document.content)]_vars

\* a change is applied to the shadow
Applies(h) == (ChangeFindById(h) /\ HasShadow) \/ ChangeShadowLoaded(h)

\* C30: a document-change message is not applied to the shadow while a
\* message the same connection sent before it is still waiting to be applied.
PerClientOrder ==
  [][\A g \in Positions, h \in Positions :
       /\ g < h
       /\ h \in DOMAIN handlers
       /\ handlers[g].event = "document-change"
       /\ handlers[g].socket = handlers[h].socket
       /\ handlers[g].pc \in {"findById", "getDocumentShadow"}
       => ~Applies(h)]_vars

----------------------------------------------------------------------------
(* Accumulation in the replay *)

\* every hunk of the bundle is found, each in the text the hunks before it left
RECURSIVE AppliesFully(_, _)
AppliesFully(patches, text) ==
  \/ patches = <<>>
  \/ /\ Head(patches).start1 \in DOMAIN text
     /\ text[Head(patches).start1] = Head(patches).text1
     /\ AppliesFully(Tail(patches),
                     [text EXCEPT ![Head(patches).start1] = Head(patches).text2])

\* the text with every hunk of the bundle applied
RECURSIVE Result(_, _)
Result(patches, text) ==
  IF patches = <<>> THEN text
  ELSE Result(Tail(patches),
              [text EXCEPT ![Head(patches).start1] = Head(patches).text2])

\* the fold of the bundles that apply fully over the text
RECURSIVE Fold(_, _)
Fold(edits, text) ==
  IF edits = <<>> THEN text
  ELSE Fold(Tail(edits),
            IF AppliesFully(Head(edits).patches, text)
              THEN Result(Head(edits).patches, text) ELSE text)

\* C31: the replay applies each bundle to the text accumulated so far; a
\* bundle that applies fully replaces the text by its result, a bundle with
\* a failed hunk leaves the text as it was, none of its hunks kept: the
\* shadow the replay leaves, and the content it goes on to save, is the fold
\* of the successful bundles over the shadow it started from.
ReplayAccumulates ==
  [][\A h \in 1..Len(handlers) :
       Replays(h)
         => LET final == Fold(arrays'[handlers[h].userOfflineEdits], ReplayBase(h))
            IN /\ documentShadows'[DocId] = final
               /\ Len(handlers') = Len(handlers)
                    => handlers'[h].document.content = final]_vars

\* a replay applied one bundle and then skipped a bundle of two hunks of
\* which one is found in the accumulated text and the other is not
SkippedHalfApplicable ==
  \E h \in 1..Len(handlers) :
    /\ At(h, "sync-offline-edits", "save")
    /\ handlers[h].appliedCount = 1
    /\ Len(arrays[handlers[h].userOfflineEdits]) = 2
    /\ Len(arrays[handlers[h].userOfflineEdits][2].patches) = 2
    /\ documentShadows[DocId] = [InitialContent EXCEPT ![1] = "a"]
    /\ handlers[h].document.content = [InitialContent EXCEPT ![1] = "a"]

----------------------------------------------------------------------------
(* Live changes during a replay *)

\* handler g of sync-offline-edits has read the shadow and has not yet
\* written the version and broadcast
Replaying(g) ==
  /\ handlers[g].event = "sync-offline-edits"
  /\ handlers[g].pc \in {"save", "addVersion"}

\* handler h of document-change writes the shadow or the document in this step
Commits(h) ==
  /\ Applies(h) \/ ChangeSaved(h) \/ ChangeVersionAdded(h)
  /\ <<document, documentShadows>>' # <<document, documentShadows>>

\* C32: between the step in which a sync-offline-edits handler reads the
\* shadow and the step in which it has written the shadow, the content and
\* the version and has broadcast, no document-change handler of the same
\* document writes the shadow or the document.
ReplayExclusive ==
  [][\A g \in Positions, h \in Positions :
       /\ g \in DOMAIN handlers
       /\ h \in DOMAIN handlers
       /\ Replaying(g)
       /\ handlers[h].event = "document-change"
       /\ handlers[h].documentId = handlers[g].documentId
       => ~Commits(h)]_vars

----------------------------------------------------------------------------
(* A save that fails *)

\* the text a bundle that applied fully was applied to
RECURSIVE Unpatched(_, _)
Unpatched(patches, text) ==
  IF patches = <<>> THEN text
  ELSE LET p == Last(patches)
       IN Unpatched(SubSeq(patches, 1, Len(patches) - 1),
                    [text EXCEPT ![p.start1] = p.text1])

\* C33: when the save of a document-change whose patch applied fails, the
\* sender is sent an error, the shadow is again what it was before the
\* patch was applied, and no document-change is sent to the others.
PersistenceFailure ==
  [][\A h \in 1..Len(handlers) :
       ChangeSaveFailed(h)
         => /\ \E i \in DOMAIN emitted' :
                 /\ emitted'[i].msg.type = "error"
                 /\ emitted'[i].to = {handlers[h].socket}
            /\ documentShadows'[DocId]
                 = Unpatched(handlers[h].patches, handlers[h].document.content)
            /\ \A i \in DOMAIN emitted' :
                 emitted'[i].msg.type # "document-change"]_vars

----------------------------------------------------------------------------
(* The shadow at rest *)

\* C34: whenever no handler and no request is in progress and the document
\* has a cached shadow, the shadow equals the persisted document.content.
ShadowEqualsContentAtRest ==
  (AllDone /\ HasShadow) => documentShadows[DocId] = document.content

----------------------------------------------------------------------------
(* The lazy load of the shadow *)

\* C35: a load of the shadow that completes when another handler has
\* meanwhile installed a shadow does not replace it: a join leaves the
\* shadow as it is, and a change is applied to the shadow that is there, so
\* that no patch applied to the shadow disappears from it.
LoadKeepsShadow ==
  [][\A h \in 1..Len(handlers) :
       /\ (JoinShadowLoaded(h) /\ HasShadow) => documentShadows' = documentShadows
       /\ (ChangeShadowLoaded(h) /\ HasShadow)
            => LET r == applyPatch(documentShadows[DocId], handlers[h].patches)
               IN documentShadows'[DocId]
                    = IF r.success THEN r.patchedText ELSE documentShadows[DocId]]_vars

----------------------------------------------------------------------------
(* Edits buffered during a replay *)

\* how many bundles of the array, from its start, some replay still in
\* progress has attempted
Attempted(array) ==
  LET loops == {handlers[g].attempted : g \in
                  {g \in 1..Len(handlers) :
                     /\ handlers[g].event = "sync-offline-edits"
                     /\ handlers[g].userOfflineEdits = array}}
  IN IF loops = {} THEN 0 ELSE CHOOSE n \in loops : \A k \in loops : k <= n

\* C36: every bundle the server has acknowledged with offline-edit-saved has
\* been attempted by a replay when it is removed from the buffer: the step
\* in which a replay deletes its key finds under the key no bundle that no
\* replay has attempted, one pushed during the replay's awaits included.
AcknowledgedEditsAttempted ==
  [][\A h \in 1..Len(handlers) :
       SyncVersionAdded(h)
         => LET key == Key(handlers[h].user, handlers[h].documentId)
            IN key \in DOMAIN offlineEdits
                 => Len(arrays[offlineEdits[key]]) <= Attempted(offlineEdits[key])]_vars

----------------------------------------------------------------------------
(* Snapshots of overlapping changes *)

AutoSaved(doc) ==
  {i \in DOMAIN doc.versions :
     doc.versions[i].changeDescription.text = "Auto-saved version"}

\* C37: no two versions 'Auto-saved version' of the document have
\* timestamps less than the snapshot interval apart.
OneAutoSavePerWindow ==
  \A i, j \in AutoSaved(document) :
    i < j => document.versions[j].timestamp - document.versions[i].timestamp
               >= SnapshotInterval

----------------------------------------------------------------------------
(* What a replay broadcasts *)

\* C38: the content of the document-updated a sync-offline-edits handler
\* broadcasts is the shadow of the document at the step of the broadcast.
ReplayBroadcastCurrent ==
  [][\A h \in 1..Len(handlers) :
       SyncVersionAdded(h)
         => \A i \in DOMAIN emitted' :
              emitted'[i].msg.type = "document-updated"
                => emitted'[i].msg.content = documentShadows'[DocId]]_vars

----------------------------------------------------------------------------
(* The roster as a whole *)

\* C39: the roster never holds two entries of the same user.
PresenceUnique ==
  \A i, j \in DOMAIN document.activeEditors :
    document.activeEditors[i].userId[2] = document.activeEditors[j].userId[2]
      => i = j

\* C40: once every handler has finished, every entry of the roster is that
\* of a user with a connected socket in the room.
NoGhostPresence ==
  AllDone =>
    \A i \in DOMAIN document.activeEditors :
      \E s \in rooms :
        /\ connection[s].status = "connected"
        /\ socketUser[s].id[2] = document.activeEditors[i].userId[2]

====
